---- MODULE Spec2Model ----
(***************************************************************************)
(* Model of api/app.py (FinShield credit-risk API): the normalisation,     *)
(* casting and validation pipeline of predict, the risk mappers band and   *)
(* pd_to_score, and the conversion of the scoring pipeline's output into   *)
(* per-row results.                                                        *)
(*                                                                         *)
(* Conventions                                                             *)
(*  - A text is a sequence of one-character strings.                       *)
(*  - A cell is a record [k, m, e, s]: k is "missing" (NaN/None), "num"    *)
(*    (the float m * 10^-e, kept normalised), "int" (the Python int m),    *)
(*    "text" (s) or "bool" (m = 1 for True).  float64 values are modelled  *)
(*    as exact decimals.                                                   *)
(*  - A frame is [n, cols, dtype, cells]: n rows, the column names in      *)
(*    order, each column's pandas dtype and its cells.                     *)
(*  - A probability is an integer count of 1/PDen.                         *)
(***************************************************************************)
EXTENDS Integers, Sequences, FiniteSets, TLC

VARIABLES
    \* ---- predict (Spec) ----
    FEATURE_ORDER,  \* list(getattr(PIPE, "feature_names_in_", []))
    hasProba,       \* hasattr(PIPE, "predict_proba")
    rows,           \* req.rows
    pc,             \* position inside predict
    df,             \* the local frame df
    dfIn,           \* df as it was before the latest step
    log,            \* the pipeline steps completed so far, in order
    adapterArgs,    \* the frames PIPE.predict_proba / PIPE.predict was called with
    proba,          \* what the scoring pipeline returned
    pd_vals,        \* the local array pd_vals
    outcome,        \* how the invocation ended
    results,        \* the "results" list of the response
    \* ---- normalize_strings alone (SpecNorm) ----
    ncol,           \* an input column
    nout,           \* the column after the calls made so far
    nprev,          \* the column before the latest call
    ncalls,         \* number of normalize_strings calls made
    \* ---- pd_to_score alone (SpecScore) ----
    sp, sq,         \* two probabilities, sp <= sq
    scoreP, scoreQ, \* their scores
    sdone           \* whether the scores have been computed

vars == <<FEATURE_ORDER, hasProba, rows, pc, df, dfIn, log, adapterArgs,
          proba, pd_vals, outcome, results, ncol, nout, nprev, ncalls,
          sp, sq, scoreP, scoreQ, sdone>>

predictVars == <<FEATURE_ORDER, hasProba, rows, pc, df, dfIn, log,
                 adapterArgs, proba, pd_vals, outcome, results>>
normVars == <<ncol, nout, nprev, ncalls>>
scoreVars == <<sp, sq, scoreP, scoreQ, sdone>>

(***************************************************************************)
(* Bounds of the model.                                                    *)
(***************************************************************************)
MaxRows == 2    \* rows per request
MaxLen == 3     \* characters per generated text cell
MaxCalls == 2   \* successive normalize_strings calls on one column
MaxGap == 3     \* distance, in grid steps, between the two probabilities
PExtra == 300   \* grid steps explored below 0.0 and above 1.0

(***************************************************************************)
(* Cells                                                                   *)
(***************************************************************************)
Missing == [k |-> "missing", m |-> 0, e |-> 0, s |-> <<>>]

Text(s) == [k |-> "text", m |-> 0, e |-> 0, s |-> s]

PyInt(m) == [k |-> "int", m |-> m, e |-> 0, s |-> <<>>]

Bool(b) == [k |-> "bool", m |-> IF b THEN 1 ELSE 0, e |-> 0, s |-> <<>>]

RECURSIVE MkNum(_, _)
\* the decimal m * 10^-e in normal form: e >= 0 and no trailing zero digit
MkNum(m, e) ==
    IF e < 0 THEN MkNum(m * 10, e + 1)
    ELSE IF e > 0 /\ m % 10 = 0 THEN MkNum(m \div 10, e - 1)
    ELSE [k |-> "num", m |-> m, e |-> e, s |-> <<>>]

(***************************************************************************)
(* Python str methods                                                      *)
(***************************************************************************)
Whitespace == {" ", "\t"}

RECURSIVE LStrip(_)
LStrip(s) == IF s # <<>> /\ s[1] \in Whitespace THEN LStrip(Tail(s)) ELSE s

RECURSIVE RStrip(_)
RStrip(s) ==
    IF s # <<>> /\ s[Len(s)] \in Whitespace
    THEN RStrip(SubSeq(s, 1, Len(s) - 1)) ELSE s

\* str.strip()
Strip(s) == RStrip(LStrip(s))

UpperCase == <<"A","B","C","D","E","F","G","H","I","J","K","L","M",
               "N","O","P","Q","R","S","T","U","V","W","X","Y","Z">>
LowerCase == <<"a","b","c","d","e","f","g","h","i","j","k","l","m",
               "n","o","p","q","r","s","t","u","v","w","x","y","z">>

LowerChar(c) ==
    IF \E i \in 1..26 : UpperCase[i] = c
    THEN LowerCase[CHOOSE i \in 1..26 : UpperCase[i] = c] ELSE c

\* str.lower()
Lower(s) == [i \in 1..Len(s) |-> LowerChar(s[i])]

\* the rupee sign, written as a token
Rupee == "Rs"

\* the character class of the regex [Rs$,]
CurrencyChars == {Rupee, "$", ","}

\* s.str.replace(r"[Rs$,]", "", regex=True)
RemoveCurrency(s) == SelectSeq(s, LAMBDA c : c \notin CurrencyChars)

\* s2.str.endswith("%")
EndsWithPct(s) == s # <<>> /\ s[Len(s)] = "%"

\* s2.str.removesuffix("%")
RemoveSuffixPct(s) == IF EndsWithPct(s) THEN SubSeq(s, 1, Len(s) - 1) ELSE s

(***************************************************************************)
(* Numbers as text: pd.to_numeric(errors="coerce") and str(float)          *)
(***************************************************************************)
Digits == <<"0","1","2","3","4","5","6","7","8","9">>

IsDigit(c) == \E i \in 1..10 : Digits[i] = c

DigitVal(c) == (CHOOSE i \in 1..10 : Digits[i] = c) - 1

RECURSIVE DigitsToNat(_)
DigitsToNat(ds) ==
    IF ds = <<>> THEN 0
    ELSE DigitsToNat(SubSeq(ds, 1, Len(ds) - 1)) * 10 + DigitVal(ds[Len(ds)])

RECURSIVE NatToDigits(_)
NatToDigits(n) ==
    IF n < 10 THEN <<Digits[n + 1]>>
    ELSE NatToDigits(n \div 10) \o <<Digits[(n % 10) + 1]>>

RECURSIVE DigitRun(_, _)
\* the number of consecutive digits of s from position i on
DigitRun(s, i) ==
    IF i <= Len(s) /\ IsDigit(s[i]) THEN 1 + DigitRun(s, i + 1) ELSE 0

\* the value of F at v, with v evaluated once
Let(v, F(_)) == CHOOSE r \in {F(x) : x \in {v}} : TRUE

\* the mantissa digits [. digits] of t from position i0 on:
\* <<integer digits, fraction digits, the position after it>>
ScanMantissa(t, i0) ==
    Let(DigitRun(t, i0), LAMBDA nInt :
        IF i0 + nInt <= Len(t) /\ t[i0 + nInt] = "."
        THEN Let(DigitRun(t, i0 + nInt + 1), LAMBDA nFrac :
                 <<nInt, nFrac, i0 + nInt + 1 + nFrac>>)
        ELSE <<nInt, 0, i0 + nInt>>)

\* the exponent e [sign] digits of t from position x0 on:
\* <<1 if there is an "e", 1 if its sign is "-", the position of its first
\*   digit, its digits>>
ScanExponent(t, x0) ==
    IF x0 <= Len(t) /\ t[x0] \in {"e", "E"}
    THEN LET esgn == x0 + 1 <= Len(t) /\ t[x0 + 1] \in {"-", "+"}
             d0 == x0 + 1 + (IF esgn THEN 1 ELSE 0)
         IN  Let(DigitRun(t, d0), LAMBDA nExp :
                 <<1, IF esgn /\ t[x0 + 1] = "-" THEN 1 ELSE 0, d0, nExp>>)
    ELSE <<0, 0, x0, 0>>

\* the number written by t, which has no surrounding whitespace
ParseStripped(t) ==
    LET neg == t # <<>> /\ t[1] = "-"
        i0 == IF t # <<>> /\ t[1] \in {"-", "+"} THEN 2 ELSE 1
    IN  Let(ScanMantissa(t, i0), LAMBDA mt :
        Let(ScanExponent(t, mt[3]), LAMBDA ex :
            LET nInt == mt[1]
                nFrac == mt[2]
                f0 == mt[3] - nFrac
                hasE == ex[1] = 1
                d0 == ex[3]
                nExp == ex[4]
                endPos == IF hasE THEN d0 + nExp ELSE mt[3]
                ok == nInt + nFrac > 0 /\ (hasE => nExp > 0) /\ endPos = Len(t) + 1
                mant == DigitsToNat(SubSeq(t, i0, i0 + nInt - 1)
                                    \o SubSeq(t, f0, f0 + nFrac - 1))
                pow == DigitsToNat(SubSeq(t, d0, d0 + nExp - 1))
            IN  IF ok
                THEN MkNum(IF neg THEN 0 - mant ELSE mant,
                           nFrac - (IF ex[2] = 1 THEN 0 - pow ELSE pow))
                ELSE Missing))

\* One element of pd.to_numeric(errors="coerce") on a string: surrounding
\* whitespace is skipped, then [sign] digits [. digits] [e [sign] digits]
\* must span the whole string; anything else (the empty string and "nan"
\* included) is NaN.
ToNumeric(s) == Let(Strip(s), LAMBDA t : ParseStripped(t))

RECURSIVE Zeros(_)
Zeros(n) == IF n <= 0 THEN <<>> ELSE <<"0">> \o Zeros(n - 1)

\* str(x) of the float64 x = m * 10^-e (repr: the shortest digits; fixed
\* notation for 1e-4 <= |x| < 1e16, scientific otherwise)
FormatNum(m, e) ==
    LET neg == m < 0
        a == IF neg THEN 0 - m ELSE m
        ds == NatToDigits(a)
        d == Len(ds)
        x == d - 1 - e                       \* decimal exponent of x
        sign == IF neg THEN <<"-">> ELSE <<>>
        xs == NatToDigits(IF x < 0 THEN 0 - x ELSE x)
        body ==
            IF a = 0 THEN <<"0", ".", "0">>
            ELSE IF x < 0 - 4 \/ x >= 16
            THEN <<ds[1]>>
                 \o (IF d > 1 THEN <<".">> \o SubSeq(ds, 2, d) ELSE <<>>)
                 \o <<"e", IF x < 0 THEN "-" ELSE "+">>
                 \o (IF Len(xs) < 2 THEN <<"0">> ELSE <<>>) \o xs
            ELSE IF e = 0 THEN ds \o <<".", "0">>
            ELSE IF d > e THEN SubSeq(ds, 1, d - e) \o <<".">> \o SubSeq(ds, d - e + 1, d)
            ELSE <<"0", ".">> \o Zeros(e - d) \o ds
    IN  sign \o body

Txt_nan == <<"n", "a", "n">>
Txt_True == <<"T", "r", "u", "e">>
Txt_False == <<"F", "a", "l", "s", "e">>

\* one element of Series.astype(str)
AsStr(c) ==
    CASE c.k = "text" -> c.s
      [] c.k = "num" -> FormatNum(c.m, c.e)
      [] c.k = "int" -> (IF c.m < 0 THEN <<"-">> ELSE <<>>)
                        \o NatToDigits(IF c.m < 0 THEN 0 - c.m ELSE c.m)
      [] c.k = "bool" -> IF c.m = 1 THEN Txt_True ELSE Txt_False
      [] OTHER -> Txt_nan

(***************************************************************************)
(* normalize_strings                                                       *)
(***************************************************************************)
placeholders ==
    { <<>>, <<"n","o","n","e">>, <<"n","u","l","l">>, <<"n","a","n">>,
      <<"n","a">>, <<"n","/","a">> }

\* the first loop's body on one cell of an object column:
\* s = astype(str).str.strip(); s.where(~s.str.lower().isin(placeholders), nan)
PlaceholderCell(c) ==
    LET s == Strip(AsStr(c))
    IN  IF Lower(s) \in placeholders THEN Missing ELSE Text(s)

\* Faulty variant: the cleaned candidate string is kept instead of the cell
KeepCandidate(prev, s2) == Text(s2)

\* nums.where(nums.notna(), out[col]): the value kept where nothing parsed
KeepUnparsed(prev, s2) == prev

\* the second loop's body on one cell (prev is the cell after the first loop)
NumericLikeCell(prev) ==
    Let(RemoveCurrency(Strip(AsStr(prev))), LAMBDA s2 :
    Let(IF EndsWithPct(s2) THEN RemoveSuffixPct(s2) ELSE s2, LAMBDA s3 :
    Let(ToNumeric(s3), LAMBDA nums :
        IF nums.k # "num" THEN KeepUnparsed(prev, s3)
        ELSE IF EndsWithPct(s2) THEN MkNum(nums.m, nums.e + 2)
        ELSE nums)))

\* both loops on one cell of an object column
NormalizeCell(c) == Let(PlaceholderCell(c), LAMBDA prev : NumericLikeCell(prev))

\* the dtype pandas infers for a column built from Python values
InferDtype(col) ==
    IF col # <<>> /\ \A i \in 1..Len(col) : col[i].k = "bool" THEN "bool"
    ELSE IF col # <<>> /\ \A i \in 1..Len(col) : col[i].k = "int" THEN "int64"
    ELSE IF (\A i \in 1..Len(col) : col[i].k \in {"num", "int", "missing"})
            /\ (\E i \in 1..Len(col) : col[i].k \in {"num", "int"}) THEN "float64"
    ELSE "object"

\* one column of pd.DataFrame(...): its dtype, and its values as that dtype
\* stores them (the ints of a float64 column are floats)
MakeColumn(col) ==
    [dtype |-> InferDtype(col),
     cells |-> IF InferDtype(col) = "float64"
               THEN [i \in 1..Len(col) |->
                        IF col[i].k = "int" THEN MkNum(col[i].m, 0) ELSE col[i]]
               ELSE col]

\* normalize_strings on one column: [dtype, cells] -> [dtype, cells].  The
\* first loop leaves an object column an object column, so the second loop
\* visits the same columns; the result is float64 when every cell parsed.
NormalizeColumn(c) ==
    IF c.dtype # "object" THEN c
    ELSE Let([i \in 1..Len(c.cells) |-> NormalizeCell(c.cells[i])], LAMBDA out :
             [dtype |-> IF \A i \in 1..Len(out) : out[i].k = "num"
                        THEN "float64" ELSE "object",
              cells |-> out])

\* normalize_strings(df)
normalize_strings(f) ==
    Let([c \in DOMAIN f.cells |->
            NormalizeColumn([dtype |-> f.dtype[c], cells |-> f.cells[c]])], LAMBDA out :
        [f EXCEPT !.dtype = [c \in DOMAIN f.dtype |-> out[c].dtype],
                  !.cells = [c \in DOMAIN f.cells |-> out[c].cells]])

(***************************************************************************)
(* Risk mappers                                                            *)
(***************************************************************************)
ScoreMax == 900
ScoreSpan == 600
ScoreMin == 300

\* probabilities are counted in 1/PDen, so that pd_ * 600 hits every half
PDen == 2 * ScoreSpan

\* Faulty variant: halves are rounded up
RoundHalfUp(num, den) == (2 * num + den) \div (2 * den)

\* Python round(num / den) for den > 0: to the nearest integer, halves to even
RoundHalfEven(num, den) ==
    LET q == num \div den
        r == num % den
    IN  IF 2 * r < den THEN q
        ELSE IF 2 * r > den THEN q + 1
        ELSE IF q % 2 = 0 THEN q ELSE q + 1

Max2(a, b) == IF a >= b THEN a ELSE b
Min2(a, b) == IF a <= b THEN a ELSE b

\* int(round(pd_ * 600)) for pd_ = p / PDen
RoundScaled(p) == RoundHalfEven(p * ScoreSpan, PDen)

\* pd_to_score(pd_)
pd_to_score(p) ==
    LET score == ScoreMax - RoundScaled(p)
    IN  Max2(ScoreMin, Min2(ScoreMax, score))

\* band(pd_)
band(p) ==
    IF p * 100 < 10 * PDen THEN "Very Low"
    ELSE IF p * 100 < 20 * PDen THEN "Low"
    ELSE IF p * 100 < 35 * PDen THEN "Medium"
    ELSE IF p * 100 < 50 * PDen THEN "High"
    ELSE "Very High"

(***************************************************************************)
(* Schema                                                                  *)
(***************************************************************************)
Range(s) == {s[i] : i \in 1..Len(s)}

NUMERIC_FEATURES ==
    {"age", "avg_recharge_amt", "recharge_freq", "data_usage_MB", "calls_peak_hours",
     "avg_days_late", "payment_delay_ratio", "avg_payment_due", "avg_payment_made",
     "payment_to_due_ratio", "sms_bank_count", "sms_otp_count", "sms_other_count",
     "sms_promotional_count", "sms_upi_count", "sms_fin_txn_count",
     "cart_abandonment_rate", "avg_order_value", "return_rate", "geo_variance_score",
     "months_active", "employer_count"}

CATEGORICAL_FEATURES ==
    IF FEATURE_ORDER # <<>>
    THEN Range(FEATURE_ORDER) \ NUMERIC_FEATURES
    ELSE {"location", "employment_type", "salary_band"}

\* the label columns predict drops, in the order it tries them
LabelCols == <<"default_flag", "target", "label">>

(***************************************************************************)
(* Frames                                                                  *)
(***************************************************************************)
EmptyFrame == [n |-> 0, cols |-> <<>>, dtype |-> <<>>, cells |-> <<>>]

\* the order in which the rows of a request write their keys
KeyOrder == <<"user_id", "age", "location", "target">>

\* pd.DataFrame(req.rows): the columns are the keys in order of first
\* appearance; a row without the key holds NaN there
DataFrame(rs) ==
    LET present == {c \in Range(KeyOrder) : \E i \in 1..Len(rs) : c \in DOMAIN rs[i]}
        column(c) == MakeColumn([i \in 1..Len(rs) |->
                        IF c \in DOMAIN rs[i] THEN rs[i][c] ELSE Missing])
    IN  [n |-> Len(rs),
         cols |-> SelectSeq(KeyOrder, LAMBDA c : c \in present),
         dtype |-> [c \in present |-> column(c).dtype],
         cells |-> [c \in present |-> column(c).cells]]

\* if label_col in df.columns: df = df.drop(columns=[label_col])
DropColumn(f, name) ==
    IF name \in Range(f.cols)
    THEN [n |-> f.n,
          cols |-> SelectSeq(f.cols, LAMBDA c : c # name),
          dtype |-> [c \in Range(f.cols) \ {name} |-> f.dtype[c]],
          cells |-> [c \in Range(f.cols) \ {name} |-> f.cells[c]]]
    ELSE f

\* Faulty variant: "target" is not among the dropped labels
DropLabelsNoTarget(f) ==
    Let(DropColumn(f, LabelCols[1]), LAMBDA g : DropColumn(g, LabelCols[3]))

\* the loop over ["default_flag", "target", "label"]
DropLabels(f) ==
    Let(DropColumn(f, LabelCols[1]), LAMBDA g :
    Let(DropColumn(g, LabelCols[2]), LAMBDA h : DropColumn(h, LabelCols[3])))

\* Faulty variant: every required name is reported as soon as one is absent
MissingAll(f) ==
    IF \E i \in 1..Len(FEATURE_ORDER) : FEATURE_ORDER[i] \notin Range(f.cols)
    THEN FEATURE_ORDER ELSE <<>>

\* [c for c in FEATURE_ORDER if c not in df.columns]
MissingRequired(f) == SelectSeq(FEATURE_ORDER, LAMBDA c : c \notin Range(f.cols))

\* Faulty variant: the columns are selected but left in the frame's own order
SelectUnordered(f, names) ==
    [n |-> f.n,
     cols |-> SelectSeq(f.cols, LAMBDA c : c \in Range(names)),
     dtype |-> [c \in Range(names) |-> f.dtype[c]],
     cells |-> [c \in Range(names) |-> f.cells[c]]]

\* df[FEATURE_ORDER]
SelectColumns(f, names) ==
    [n |-> f.n,
     cols |-> names,
     dtype |-> [c \in Range(names) |-> f.dtype[c]],
     cells |-> [c \in Range(names) |-> f.cells[c]]]

(***************************************************************************)
(* cast_schema and validate_dtypes                                         *)
(***************************************************************************)
\* one element of pd.to_numeric(out[c], errors="coerce").astype("float64")
ToFloat(c) ==
    CASE c.k = "num" -> c
      [] c.k \in {"int", "bool"} -> MkNum(c.m, 0)
      [] c.k = "text" -> ToNumeric(c.s)
      [] OTHER -> Missing

\* Faulty variant: the fill is forgotten
NoFill(c) == c

\* one element of fillna(0.0)
FillZero(c) == IF c.k = "missing" THEN MkNum(0, 0) ELSE c

Txt_unknown == <<"u", "n", "k", "n", "o", "w", "n">>

\* one element of out[c].where(out[c].notna(), "unknown")
FillUnknown(c) == IF c.k = "missing" THEN Text(Txt_unknown) ELSE c

\* cast_schema(df)
cast_schema(f) ==
    LET num_cols == NUMERIC_FEATURES \cap Range(f.cols)
        cat_cols == CATEGORICAL_FEATURES \cap Range(f.cols)
    IN  [f EXCEPT
          !.dtype = [c \in DOMAIN f.dtype |->
                        IF c \in num_cols THEN "float64"
                        ELSE IF c \in cat_cols THEN "object"
                        ELSE f.dtype[c]],
          !.cells = [c \in DOMAIN f.cells |->
                        IF c \in num_cols
                        THEN [i \in 1..Len(f.cells[c]) |->
                                Let(ToFloat(f.cells[c][i]), LAMBDA v : FillZero(v))]
                        ELSE IF c \in cat_cols
                        THEN [i \in 1..Len(f.cells[c]) |-> FillUnknown(f.cells[c][i])]
                        ELSE f.cells[c]]]

\* np.issubdtype(dtype, np.number)
IsNumberDtype(d) == d \in {"float64", "int64"}

\* how an invocation ends
Pending ==
    [kind |-> "pending", status |-> 0, error |-> "", missing |-> <<>>,
     expected |-> <<>>, wrong |-> {}]

\* return {"results": results}
Returned == [Pending EXCEPT !.kind = "results", !.status = 200]

\* raise HTTPException(400, ...)
HTTPException(code, err, missing, expected, wrong) ==
    [kind |-> "http_error", status |-> code, error |-> err, missing |-> missing,
     expected |-> expected, wrong |-> wrong]

\* an exception no handler of predict catches
Unhandled(err) == [Pending EXCEPT !.kind = "unhandled", !.status = 500, !.error = err]

\* validate_dtypes(df): the exception it raises, or Pending when it returns
validate_dtypes(f) ==
    LET missing == IF FEATURE_ORDER # <<>> THEN MissingRequired(f) ELSE <<>>
        wrong == {c \in NUMERIC_FEATURES \cap Range(f.cols) : ~IsNumberDtype(f.dtype[c])}
    IN  IF missing # <<>>
        THEN HTTPException(400, "MissingColumns", missing, <<>>, {})
        ELSE IF wrong # {}
        THEN HTTPException(400, "TypeMismatch", <<>>, <<>>,
                           {<<c, f.dtype[c]>> : c \in wrong})
        ELSE Pending

(***************************************************************************)
(* The scoring pipeline's output                                           *)
(***************************************************************************)
\* An array is [ndim, data]: a scalar (ndim 0), a sequence of numbers
\* (ndim 1) or a sequence of rows of numbers (ndim 2).
NoArray == [ndim |-> 0 - 1, data |-> <<>>]

\* the positive-class values the scoring pipeline may give a row (0.42, 1.5)
AdapterValues == {504, 1800}

\* what PIPE.predict_proba(df) / PIPE.predict(df) may return for n rows
AdapterReturns(n) ==
    IF hasProba
    THEN {[ndim |-> 2, data |-> [i \in 1..n |-> <<PDen - v[i], v[i]>>]] :
            v \in [1..n -> AdapterValues]}
         \cup {[ndim |-> 2, data |-> [i \in 1..n |-> <<v[i]>>]] :
            v \in [1..n -> AdapterValues]}
    ELSE {[ndim |-> 1, data |-> v] : v \in [1..n -> AdapterValues]}

\* proba.shape[1]
Shape1(a) == IF a.data = <<>> THEN 0 ELSE Len(a.data[1])

\* np.squeeze(proba): the axes of length 1 are removed
Squeeze(a) ==
    IF a.ndim = 2
    THEN IF Len(a.data) = 1 /\ Shape1(a) = 1 THEN [ndim |-> 0, data |-> a.data[1][1]]
         ELSE IF Shape1(a) = 1 THEN [ndim |-> 1, data |-> [i \in 1..Len(a.data) |-> a.data[i][1]]]
         ELSE IF Len(a.data) = 1 THEN [ndim |-> 1, data |-> a.data[1]]
         ELSE a
    ELSE IF a.ndim = 1 /\ Len(a.data) = 1 THEN [ndim |-> 0, data |-> a.data[1]]
    ELSE a

\* Faulty variant: the first column is taken: proba[:, 0]
FirstColumn(a) == [ndim |-> 1, data |-> [i \in 1..Len(a.data) |-> a.data[i][1]]]

\* proba[:, 1]
SecondColumn(a) == [ndim |-> 1, data |-> [i \in 1..Len(a.data) |-> a.data[i][2]]]

\* np.clip(a, 0.0, 1.0) on a one-dimensional array
Clip(a) == [ndim |-> 1, data |-> [i \in 1..Len(a.data) |-> Max2(0, Min2(PDen, a.data[i]))]]

\* the value of pd_vals, from what the scoring pipeline returned
PdVals(a) ==
    IF hasProba
    THEN IF a.ndim = 2 /\ Shape1(a) >= 2 THEN SecondColumn(a) ELSE Squeeze(a)
    ELSE Clip(a)

Txt_None == <<"N", "o", "n", "e">>

\* Python str(value)
PyStr(c) == IF c.k = "missing" THEN Txt_None ELSE AsStr(c)

\* str(row.get("user_id", ""))
UserIdOf(row) == IF "user_id" \in DOMAIN row THEN PyStr(row["user_id"]) ELSE <<>>

\* one element of results
Result(row, v) ==
    [user_id |-> UserIdOf(row), pd |-> v, risk_band |-> band(v),
     credit_score |-> pd_to_score(v)]

\* zip(req.rows, pd_vals) stops at the shorter of the two
ZipLen(rs, a) == Min2(Len(rs), Len(a.data))

(***************************************************************************)
(* predict                                                                 *)
(***************************************************************************)
FeatureOrders == {<<>>, <<"location", "age">>, <<"age", "target">>}

Absent == [k |-> "absent", m |-> 0, e |-> 0, s |-> <<>>]

\* the values a row of a request may give each key
ValuesOf(key) ==
    CASE key = "user_id" -> {Absent, Text(<<"u", "1">>), PyInt(7)}
      [] key = "age" -> {Absent, Text(<<"4", "5">>), Text(<<" ", "a">>)}
      [] key = "location" -> {Absent, Text(<<"x">>)}
      [] OTHER -> {Absent, PyInt(1)}

RowChoices ==
    {[key \in {k \in Range(KeyOrder) : ch[k] # Absent} |-> ch[key]] :
        ch \in {c \in [Range(KeyOrder) -> UNION {ValuesOf(k) : k \in Range(KeyOrder)}] :
                  /\ \A k \in Range(KeyOrder) : c[k] \in ValuesOf(k)
                  /\ (c["location"] = Absent \/ c["target"] = Absent)}}

Batches == UNION {[1..n -> RowChoices] : n \in 0..MaxRows}

InitPredictIdle ==
    /\ FEATURE_ORDER = <<>>
    /\ hasProba = FALSE
    /\ rows = <<>>
    /\ pc = "idle"
    /\ df = EmptyFrame
    /\ dfIn = EmptyFrame
    /\ pd_vals = NoArray
    /\ log = <<>>
    /\ adapterArgs = <<>>
    /\ proba = NoArray
    /\ outcome = Pending
    /\ results = <<>>

InitNormIdle ==
    /\ ncol = <<>>
    /\ nout = <<>>
    /\ nprev = <<>>
    /\ ncalls = 0

InitScoreIdle ==
    /\ sp = 0
    /\ sq = 0
    /\ scoreP = 0
    /\ scoreQ = 0
    /\ sdone = TRUE

Init ==
    /\ FEATURE_ORDER \in FeatureOrders
    /\ hasProba \in BOOLEAN
    /\ rows \in Batches
    /\ pc = "check_empty"
    /\ df = EmptyFrame
    /\ dfIn = EmptyFrame
    /\ log = <<>>
    /\ adapterArgs = <<>>
    /\ proba = NoArray
    /\ pd_vals = NoArray
    /\ outcome = Pending
    /\ results = <<>>
    /\ InitNormIdle
    /\ InitScoreIdle

\* Faulty variant: the emptiness check is skipped
NeverEmpty(rs) == FALSE

\* not req.rows
IsEmpty(rs) == rs = <<>>

Fail(exc) ==
    /\ outcome' = exc
    /\ pc' = "done"

Step(name, next) ==
    /\ log' = Append(log, name)
    /\ pc' = next
    /\ UNCHANGED outcome

\* if not req.rows: raise HTTPException(400, "No rows provided")
CheckEmpty ==
    /\ pc = "check_empty"
    /\ IF IsEmpty(rows)
       THEN Fail(HTTPException(400, "EmptyInput", <<>>, <<>>, {})) /\ UNCHANGED log
       ELSE Step("check_empty", "drop_labels")
    /\ UNCHANGED <<FEATURE_ORDER, hasProba, rows, df, dfIn, adapterArgs, proba,
                   pd_vals, results, normVars, scoreVars>>

\* df = pd.DataFrame(req.rows), then the label columns are dropped
DropLabelColumns ==
    /\ pc = "drop_labels"
    /\ dfIn' = DataFrame(rows)
    /\ df' = DropLabels(dfIn')
    /\ Step("drop_labels", "normalize_strings")
    /\ UNCHANGED <<FEATURE_ORDER, hasProba, rows, adapterArgs, proba, pd_vals,
                   results, normVars, scoreVars>>

\* df = normalize_strings(df)
NormalizeStrings ==
    /\ pc = "normalize_strings"
    /\ dfIn' = df
    /\ df' = normalize_strings(df)
    /\ Step("normalize_strings", "enforce_order")
    /\ UNCHANGED <<FEATURE_ORDER, hasProba, rows, adapterArgs, proba, pd_vals,
                   results, normVars, scoreVars>>

\* if FEATURE_ORDER: the required columns are checked, then df = df[FEATURE_ORDER]
EnforceOrder ==
    /\ pc = "enforce_order"
    /\ IF FEATURE_ORDER # <<>> /\ MissingRequired(df) # <<>>
       THEN /\ Fail(HTTPException(400, "MissingColumns", MissingRequired(df),
                                  FEATURE_ORDER, {}))
            /\ UNCHANGED <<df, dfIn, log>>
       ELSE /\ dfIn' = df
            /\ df' = IF FEATURE_ORDER # <<>> THEN SelectColumns(df, FEATURE_ORDER) ELSE df
            /\ Step("enforce_order", "cast_schema")
    /\ UNCHANGED <<FEATURE_ORDER, hasProba, rows, adapterArgs, proba, pd_vals,
                   results, normVars, scoreVars>>

\* df = cast_schema(df)
CastSchema ==
    /\ pc = "cast_schema"
    /\ dfIn' = df
    /\ df' = cast_schema(df)
    /\ Step("cast_schema", "validate_dtypes")
    /\ UNCHANGED <<FEATURE_ORDER, hasProba, rows, adapterArgs, proba, pd_vals,
                   results, normVars, scoreVars>>

\* validate_dtypes(df)
ValidateDtypes ==
    /\ pc = "validate_dtypes"
    /\ IF validate_dtypes(df) # Pending
       THEN Fail(validate_dtypes(df)) /\ UNCHANGED log
       ELSE Step("validate_dtypes", "predict")
    /\ UNCHANGED <<FEATURE_ORDER, hasProba, rows, df, dfIn, adapterArgs, proba,
                   pd_vals, results, normVars, scoreVars>>

\* the try block: the scoring pipeline is called with df; it raises, which is
\* re-raised as HTTPException(400, "Inference error: ..."), or it returns
Predict ==
    /\ pc = "predict"
    /\ adapterArgs' = Append(adapterArgs, df)
    /\ \/ /\ Fail(HTTPException(400, "InferenceError", <<>>, <<>>, {}))
          /\ UNCHANGED <<log, proba, pd_vals>>
       \/ \E a \in AdapterReturns(df.n) :
            /\ proba' = a
            /\ pd_vals' = PdVals(a)
            /\ Step("predict", "build_results")
    /\ UNCHANGED <<FEATURE_ORDER, hasProba, rows, df, dfIn, results, normVars, scoreVars>>

\* the loop over zip(req.rows, pd_vals) and the return; iterating a
\* zero-dimensional array raises TypeError outside the try block
BuildResults ==
    /\ pc = "build_results"
    /\ IF pd_vals.ndim = 0
       THEN Fail(Unhandled("TypeError")) /\ UNCHANGED <<log, results>>
       ELSE /\ results' = [i \in 1..ZipLen(rows, pd_vals) |-> Result(rows[i], pd_vals.data[i])]
            /\ outcome' = Returned
            /\ log' = Append(log, "build_results")
            /\ pc' = "done"
    /\ UNCHANGED <<FEATURE_ORDER, hasProba, rows, df, dfIn, adapterArgs, proba,
                   pd_vals, normVars, scoreVars>>

\* predict up to the call of the scoring pipeline, as a function of the rows:
\* the exception raised before the call (Pending when none) and the frame
\* the scoring pipeline is called with
Prepare(rs) ==
    IF IsEmpty(rs)
    THEN [error |-> HTTPException(400, "EmptyInput", <<>>, <<>>, {}), frame |-> EmptyFrame]
    ELSE Let(normalize_strings(DropLabels(DataFrame(rs))), LAMBDA f1 :
         IF FEATURE_ORDER # <<>> /\ MissingRequired(f1) # <<>>
         THEN [error |-> HTTPException(400, "MissingColumns", MissingRequired(f1),
                                       FEATURE_ORDER, {}),
               frame |-> EmptyFrame]
         ELSE Let(cast_schema(IF FEATURE_ORDER # <<>>
                              THEN SelectColumns(f1, FEATURE_ORDER) ELSE f1), LAMBDA f2 :
                  [error |-> validate_dtypes(f2),
                   frame |-> IF validate_dtypes(f2) = Pending THEN f2 ELSE EmptyFrame]))

Next ==
    \/ CheckEmpty
    \/ DropLabelColumns
    \/ NormalizeStrings
    \/ EnforceOrder
    \/ CastSchema
    \/ ValidateDtypes
    \/ Predict
    \/ BuildResults

Spec == Init /\ [][Next]_vars

(***************************************************************************)
(* Properties of predict (checked under Spec)                              *)
(***************************************************************************)
\* what a cell of a textual column becomes when the unparsable cell keeps
\* the value keep
NormalizedAs(c, keep) ==
    LET txt == Strip(AsStr(c))
        cand == RemoveCurrency(txt)
        pct == EndsWithPct(cand)
        parsed == ToNumeric(IF pct THEN SubSeq(cand, 1, Len(cand) - 1) ELSE cand)
    IN  IF Lower(txt) \in placeholders THEN Missing
        ELSE IF parsed.k # "num" THEN keep
        ELSE IF pct THEN MkNum(parsed.m, parsed.e + 2)
        ELSE parsed

LabelSet == Range(LabelCols)

\* the columns of the batch once the label columns are dropped
BatchColumns == (UNION {DOMAIN rows[i] : i \in 1..Len(rows)}) \ LabelSet

\* the required names that are a column of no input row
RequiredAbsent == {c \in Range(FEATURE_ORDER) : c \notin BatchColumns}

PipelineOrder ==
    <<"check_empty", "drop_labels", "normalize_strings", "enforce_order",
      "cast_schema", "validate_dtypes">>

\* C1: the scoring pipeline is called at most once, and only after the empty
\* check, the label drop, normalize_strings, the required-column check with
\* reorder, cast_schema and validate_dtypes have completed in that order;
\* with no rows, with a required column absent, or after any validation
\* error, it is never called; the frame it is called with has only numeric
\* cells in its numeric columns.
C1_ValidatedBeforeAdapter ==
    /\ Len(adapterArgs) <= 1
    /\ adapterArgs # <<>> =>
          /\ Len(log) >= Len(PipelineOrder)
          /\ SubSeq(log, 1, Len(PipelineOrder)) = PipelineOrder
          /\ \A c \in NUMERIC_FEATURES \cap Range(adapterArgs[1].cols) :
                /\ IsNumberDtype(adapterArgs[1].dtype[c])
                /\ \A i \in 1..adapterArgs[1].n : adapterArgs[1].cells[c][i].k = "num"
    /\ (rows = <<>> \/ RequiredAbsent # {}) => adapterArgs = <<>>
    /\ outcome.error \in {"EmptyInput", "MissingColumns", "TypeMismatch"}
          => adapterArgs = <<>>

\* a request with a known feature order that went through every step and
\* was scored
C1_Witness ==
    /\ pc = "done"
    /\ FEATURE_ORDER # <<>>
    /\ Len(adapterArgs) = 1
    /\ outcome.kind = "results"
    /\ log = PipelineOrder \o <<"predict", "build_results">>

\* the value the scoring pipeline gave row i: the positive-class column of a
\* probability matrix (its only column when it has one), or the point
\* estimate bounded to [0, 1]
AdapterValue(i) ==
    IF hasProba THEN proba.data[i][Len(proba.data[i])]
    ELSE IF proba.data[i] < 0 THEN 0
    ELSE IF proba.data[i] > PDen THEN PDen
    ELSE proba.data[i]

\* the text user_id stands for the field f: the field itself when it is a
\* string, its decimal digits when it is an integer
IsTextOf(uid, f) ==
    CASE f.k = "text" -> uid = f.s
      [] f.k = "int" -> (\A j \in 1..Len(uid) : IsDigit(uid[j])) /\ DigitsToNat(uid) = f.m
      [] OTHER -> FALSE

C3_ResultsOrStructuredError ==
    pc = "done" =>
        \/ outcome.kind = "results" /\ Len(results) = Len(rows)
        \/ /\ outcome.kind = "http_error"
           /\ outcome.status = 400
           /\ outcome.error \in {"EmptyInput", "MissingColumns", "TypeMismatch",
                                 "InferenceError"}

\* C4: with a known feature order and a non-empty batch, predict fails with
\* MissingColumns (400) exactly when a required name is a column of no row
\* once the labels are dropped; the error lists exactly the absent required
\* names and the full expected order, and the scoring pipeline is not called.
C4_MissingColumnsExact ==
    /\ (pc = "done" /\ rows # <<>> /\ RequiredAbsent # {}) =>
          /\ outcome.kind = "http_error"
          /\ outcome.status = 400
          /\ outcome.error = "MissingColumns"
          /\ Range(outcome.missing) = RequiredAbsent
          /\ Len(outcome.missing) = Cardinality(RequiredAbsent)
          /\ outcome.expected = FEATURE_ORDER
          /\ adapterArgs = <<>>
    /\ RequiredAbsent = {} => outcome.error # "MissingColumns"

\* "age" is present and "location", which comes first in the order, is not
C4_Witness ==
    /\ pc = "done"
    /\ FEATURE_ORDER = <<"location", "age">>
    /\ "age" \in BatchColumns
    /\ outcome.error = "MissingColumns"
    /\ outcome.missing = <<"location">>

\* the rows with their label keys removed
WithoutLabels(rs) ==
    [i \in 1..Len(rs) |-> [k \in DOMAIN rs[i] \ LabelSet |-> rs[i][k]]]

\* C5: the frame the scoring pipeline is called with holds no column named
\* "default_flag", "target" or "label", and the invocation ends as it would
\* for the same rows with those keys removed: the same error before the
\* call, or the same frame passed to the scoring pipeline.
C5_NoLabelReachesAdapter ==
    /\ \A k \in 1..Len(adapterArgs) :
          /\ Range(adapterArgs[k].cols) \cap LabelSet = {}
          /\ DOMAIN adapterArgs[k].cells \cap LabelSet = {}
    /\ pc = "done" =>
          IF adapterArgs = <<>>
          THEN outcome = Prepare(WithoutLabels(rows)).error
          ELSE /\ Prepare(WithoutLabels(rows)).error = Pending
               /\ adapterArgs[1] = Prepare(WithoutLabels(rows)).frame

\* a row carrying "target" was scored, the feature order being unknown
C5_Witness ==
    /\ pc = "done"
    /\ FEATURE_ORDER = <<>>
    /\ outcome.kind = "results"
    /\ \E i \in 1..Len(rows) : "target" \in DOMAIN rows[i]

\* a cell that is missing or does not parse as a number
Unparsable(c) == c.k = "missing" \/ (c.k = "text" /\ ToNumeric(c.s).k # "num")

NumericColumnsFilled ==
    \A c \in NUMERIC_FEATURES \cap Range(df.cols) : \A i \in 1..df.n :
        /\ df.cells[c][i].k = "num"
        /\ Unparsable(dfIn.cells[c][i]) => df.cells[c][i] = MkNum(0, 0)

TextColumnFilled(c) ==
    \A i \in 1..df.n :
        /\ df.cells[c][i].k # "missing"
        /\ dfIn.cells[c][i].k = "missing" => df.cells[c][i] = Text(Txt_unknown)
        /\ dfIn.cells[c][i].k # "missing" => df.cells[c][i] = dfIn.cells[c][i]

\* C7: after cast_schema every cell of a numeric column is a number, 0.0
\* where it was missing or unparsable, and every cell of a column that is
\* categorical or not declared numeric is non-missing, "unknown" where it
\* was missing.
C7_EveryColumnFilled ==
    pc = "validate_dtypes" =>
        /\ NumericColumnsFilled
        /\ \A c \in Range(df.cols) \ NUMERIC_FEATURES : TextColumnFilled(c)

\* C7 as amended: the columns of CATEGORICAL_FEATURES are filled with
\* "unknown"; a column that is neither numeric nor categorical is unchanged.
C7_DeclaredColumnsFilled ==
    pc = "validate_dtypes" =>
        /\ NumericColumnsFilled
        /\ \A c \in CATEGORICAL_FEATURES \cap Range(df.cols) : TextColumnFilled(c)
        /\ \A c \in Range(df.cols) \ (NUMERIC_FEATURES \cup CATEGORICAL_FEATURES) :
              /\ df.cells[c] = dfIn.cells[c]
              /\ df.dtype[c] = dfIn.dtype[c]

\* unknown feature order: an unparsable "age" became 0.0, a missing
\* "location" became "unknown" and a missing "user_id" stayed missing
C7_Witness ==
    /\ pc = "validate_dtypes"
    /\ FEATURE_ORDER = <<>>
    /\ df.n = 2
    /\ df.cols = <<"user_id", "age", "location">>
    /\ dfIn.cells["age"][1].k = "text" /\ df.cells["age"][1] = MkNum(0, 0)
    /\ dfIn.cells["location"][1].k = "missing"
    /\ df.cells["location"][1] = Text(Txt_unknown)
    /\ df.cells["user_id"][2].k = "missing"

\* what the cell of column c is, for the scoring pipeline, given its row
ExpectedCell(c, row) ==
    LET raw == IF c \in DOMAIN row THEN row[c] ELSE Missing
        asNumber == NormalizedAs(raw, Missing)
        asText == NormalizedAs(raw, Text(Strip(AsStr(raw))))
    IN  IF c \in NUMERIC_FEATURES
        THEN IF asNumber.k = "num" THEN asNumber ELSE MkNum(0, 0)
        ELSE IF asText.k = "missing" THEN Text(Txt_unknown) ELSE asText

\* C8: with a known feature order the frame passed to the scoring pipeline
\* has exactly the columns of FEATURE_ORDER in that sequence, nothing else
\* ("user_id" included), and row i of it comes from input row i.
C8_ExactFeatureOrder ==
    FEATURE_ORDER # <<>> =>
        \A k \in 1..Len(adapterArgs) :
            /\ adapterArgs[k].cols = FEATURE_ORDER
            /\ DOMAIN adapterArgs[k].cells = Range(FEATURE_ORDER)
            /\ DOMAIN adapterArgs[k].dtype = Range(FEATURE_ORDER)
            /\ adapterArgs[k].n = Len(rows)
            /\ \A c \in Range(FEATURE_ORDER) :
                  /\ Len(adapterArgs[k].cells[c]) = Len(rows)
                  /\ \A i \in 1..Len(rows) :
                        adapterArgs[k].cells[c][i] = ExpectedCell(c, rows[i])

\* two different rows written as user_id, age, location; the order is
\* location, age
C8_Witness ==
    /\ Len(adapterArgs) = 1
    /\ FEATURE_ORDER = <<"location", "age">>
    /\ Len(rows) = 2
    /\ DOMAIN rows[1] = {"user_id", "age", "location"}
    /\ DOMAIN rows[2] = {"age", "location"}
    /\ rows[1]["age"] # rows[2]["age"]
    /\ adapterArgs[1].cells["age"][1] # adapterArgs[1].cells["age"][2]

(***************************************************************************)
(* normalize_strings on single columns                                     *)
(***************************************************************************)
Alphabet == {" ", "$", ",", "%", "1", ".", "N", "a"}

\* every text of at most MaxLen characters
GeneratedTexts == UNION { [1..n -> Alphabet] : n \in 0..MaxLen }

\* the non-text values a JSON cell can hold
OtherCells == {Missing, PyInt(12), MkNum(5, 1), Bool(TRUE)}

\* the cells sharing the column with the generated one
Companions ==
    {Missing, PyInt(12), MkNum(5, 1), Bool(TRUE), Text(<<"x">>), Text(<<"5", "%">>)}

InputColumns ==
    LET first == {Text(s) : s \in GeneratedTexts} \cup OtherCells
    IN  {<<c>> : c \in first} \cup {<<c, d>> : c \in first, d \in Companions}

InitNorm ==
    /\ ncol \in {MakeColumn(col) : col \in InputColumns}
    /\ nout = ncol
    /\ nprev = ncol
    /\ ncalls = 0
    /\ InitPredictIdle
    /\ InitScoreIdle

\* out = normalize_strings(out)
NormalizeCall ==
    /\ ncol # <<>>
    /\ ncalls < MaxCalls
    /\ nprev' = nout
    /\ nout' = NormalizeColumn(nout)
    /\ ncalls' = ncalls + 1
    /\ UNCHANGED <<ncol, predictVars, scoreVars>>

NextNorm == NormalizeCall

SpecNorm == InitNorm /\ [][NextNorm]_vars

(***************************************************************************)
(* pd_to_score on pairs of probabilities                                   *)
(***************************************************************************)
InitScore ==
    /\ sp \in (0 - PExtra)..(PDen + PExtra)
    /\ sq \in sp..(sp + MaxGap)
    /\ scoreP = 0
    /\ scoreQ = 0
    /\ sdone = FALSE
    /\ InitPredictIdle
    /\ InitNormIdle

ComputeScores ==
    /\ ~sdone
    /\ scoreP' = pd_to_score(sp)
    /\ scoreQ' = pd_to_score(sq)
    /\ sdone' = TRUE
    /\ UNCHANGED <<sp, sq, predictVars, normVars>>

NextScore == ComputeScores

SpecScore == InitScore /\ [][NextScore]_vars

(***************************************************************************)
(* Properties of normalize_strings (checked under SpecNorm)                *)
(***************************************************************************)
\* C9: after normalize_strings every cell of a textual column is missing when
\* its stripped lower-cased text is a placeholder, else the number its text
\* parses to once the currency characters and one trailing "%" are removed
\* (divided by 100 when a "%" was stripped), else its original value,
\* untouched; and an entirely numeric column is unchanged.
C9_NormalizePerCell ==
    ncalls = 1 =>
        IF nprev.dtype = "object"
        THEN \A i \in 1..Len(nprev.cells) :
                nout.cells[i] = NormalizedAs(nprev.cells[i], nprev.cells[i])
        ELSE nout = nprev

\* The same with the unparsable cell keeping its whitespace-stripped text.
NormalizeKeepsStrippedText ==
    ncalls = 1 =>
        IF nprev.dtype = "object"
        THEN \A i \in 1..Len(nprev.cells) :
                nout.cells[i] = NormalizedAs(nprev.cells[i],
                                             Text(Strip(AsStr(nprev.cells[i]))))
        ELSE nout = nprev

\* C10: normalize_strings is idempotent: a second call changes no cell.
C10_Idempotent ==
    ncalls >= 2 => nout.cells = nprev.cells

\* a column mixing a percent string with unparsable text, normalised twice,
\* whose first normalisation changed it
C10_Witness ==
    /\ ncalls = 2
    /\ Len(ncol.cells) = 2
    /\ ncol.cells[1] = Text(<<"1", "%">>)
    /\ ncol.cells[2] = Text(<<"x">>)
    /\ nout.cells[1] = MkNum(1, 2)
    /\ nout.cells # ncol.cells

(***************************************************************************)
(* Properties of pd_to_score (checked under SpecScore)                     *)
(***************************************************************************)
Dist(a, b) == IF a >= b THEN a - b ELSE b - a

\* the integer nearest to num / den, the even one of the two at a half
NearestEven(num, den) ==
    CHOOSE z \in ((num \div den) - 1)..((num \div den) + 1) :
        /\ 2 * Dist(num, z * den) <= den
        /\ (2 * Dist(num, z * den) = den => z % 2 = 0)

\* round(900 - 600 * p) clamped to [300, 900], for p = n / PDen
ClampedRound(n) ==
    LET r == NearestEven(ScoreMax * PDen - ScoreSpan * n, PDen)
    IN  IF r < ScoreMin THEN ScoreMin ELSE IF r > ScoreMax THEN ScoreMax ELSE r

\* C6: pd_to_score(p) is round(900 - 600 p), halves to even, clamped to
\* [300, 900]; pd_to_score(0.0) = 900 and pd_to_score(1.0) = 300; the score
\* lies in [300, 900] for every p, out-of-range ones included; and it does
\* not increase as p increases.
C6_ScoreIsClampedRound ==
    sdone =>
        /\ scoreP = ClampedRound(sp)
        /\ scoreQ = ClampedRound(sq)
        /\ (sp = 0 => scoreP = 900)
        /\ (sp = PDen => scoreP = 300)
        /\ scoreP \in 300..900
        /\ (sp <= sq => scoreP >= scoreQ)

\* p * 600 = 0.5 rounds down to 0 and q * 600 = 1.5 rounds up to 2
C6_Witness ==
    /\ sdone
    /\ sp = 1 /\ scoreP = 900
    /\ sq = 3 /\ scoreQ = 898

====
